---- MODULE Spec2Model ----
(***************************************************************************)
(* A model of jemez/dflow_casimir.py: the ESRI .asc raster codec (class    *)
(* ESRIAsc), the D-FLOW mesh regridder (shear_mesh_to_asc), the CASiMiR    *)
(* succession step (casimir) and the wrapper casimir_with_dflow_io.        *)
(*                                                                         *)
(* Numbers.  Python floats are modelled exactly on the grid of halves: a   *)
(* float x is the integer 2*x (F(3) = 6 is 3.0, 5 is 2.5, -19999 is        *)
(* -9999.5).  Python ints (ncols, nrows, cellsize after int(), idx,        *)
(* vegetation codes, dictionary keys) are plain integers.  The float NaN   *)
(* is the integer NaN defined below, far outside the range of the floats   *)
(* that occur; the operations on floats test for it first.  An entry of    *)
(* the matrix griddata returns is a record [nan, v].  Python's None is the *)
(* string "None".                                                          *)
(*                                                                         *)
(* Text.  A file is a sequence of lines, a line a sequence of tokens.  A   *)
(* numeric token is [val |-> the number in halves, dot |-> whether the     *)
(* literal has a decimal point]: "100" is [val |-> 200, dot |-> FALSE],    *)
(* "100.0" is [val |-> 200, dot |-> TRUE], "0.5" is [val |-> 1, dot |->    *)
(* TRUE].  A label is a string.                                            *)
(*                                                                         *)
(* Objects.  ESRIAsc instances live in heap, a function from the ids of    *)
(* the objects allocated so far; a Python variable holding an instance     *)
(* holds its id, so aliasing and in-place mutation are visible.            *)
(***************************************************************************)
EXTENDS Integers, Sequences, FiniteSets, TLC

VARIABLES
    disk,                   \* path -> content of the file at that path
    heap,                   \* object id -> ESRIAsc instance
    args,                   \* the arguments of the call under way
    pc,                     \* position in the program
    err,                    \* the exception that ended the call, or None
    vegetation_map,         \* casimir's locals (object ids)
    zone_map,
    shear_map,
    shear_resistance_dict,
    ret_veg_map,
    idx,
    written                 \* the lines ESRIAsc.write has put in write_path

vars == <<disk, heap, args, pc, err, vegetation_map, zone_map, shear_map,
          shear_resistance_dict, ret_veg_map, idx, written>>

None == "None"

-----------------------------------------------------------------------------
(* Numbers *)

\* The float with integer value n.
F(n) == 2 * n

\* The float NaN, and isnan(x).
NaN == -(2 ^ 30) - 1
isnan(x) == x = NaN

\* x != y and x > y on floats: with a NaN operand != is true and > is false.
FloatNe(x, y) == isnan(x) \/ isnan(y) \/ x # y
FloatGt(x, y) == ~isnan(x) /\ ~isnan(y) /\ x > y

\* int(x) of a float: truncation toward zero; int(NaN) raises ValueError.
IntRaises(x) == isnan(x)
PyInt(x) == IF x >= 0 THEN x \div 2 ELSE -((-x) \div 2)

\* x + y on floats: NaN if either is.
FloatAdd(x, y) == IF isnan(x) \/ isnan(y) THEN NaN ELSE x + y

\* x + 1 on a float.
PlusOne(x) == FloatAdd(x, F(1))

\* int(s) of a numeric literal: Python refuses a literal with a decimal point
\* and the literal 'nan'.
IntLiteralOk(tok) == ~tok.dot /\ ~isnan(tok.val)
ParseInt(tok) == tok.val \div 2

\* float(s) of a numeric literal accepts all forms ('nan' gives NaN).
ParseFloat(tok) == tok.val

\* "{}".format(n) of an int, and "{}".format(x) / str(x) of a float.
FormatInt(n) == [val |-> 2 * n, dot |-> FALSE]
FormatFloat(x) == [val |-> x, dot |-> ~isnan(x)]

-----------------------------------------------------------------------------
(* class ESRIAsc *)

ESRIAsc(file_path, ncols, nrows, xllcorner, yllcorner, cellsize, NODATA_value, data) ==
    [file_path |-> file_path, ncols |-> ncols, nrows |-> nrows,
     xllcorner |-> xllcorner, yllcorner |-> yllcorner, cellsize |-> cellsize,
     NODATA_value |-> NODATA_value, data |-> data]

header_dict(self) ==
    [ncols |-> self.ncols, nrows |-> self.nrows,
     xllcorner |-> self.xllcorner, yllcorner |-> self.yllcorner,
     cellsize |-> self.cellsize, NODATA_value |-> self.NODATA_value]

\* ' '.join of the stripped lines, split on blanks: the tokens in order.
RECURSIVE JoinLines(_)
JoinLines(lines) ==
    IF lines = <<>> THEN <<>> ELSE Head(lines) \o JoinLines(Tail(lines))

\* getnextval on header line k (1..6): IndexError when the line is missing
\* or has no second token; ValueError when int() is given a literal with a
\* decimal point (ncols, nrows, cellsize are read with int()).
IntHeaderLines == {1, 2, 5}

HeaderError(lines, k) ==
    IF k > Len(lines) \/ Len(lines[k]) < 2 THEN "IndexError"
    ELSE IF k \in IntHeaderLines /\ ~IntLiteralOk(lines[k][2]) THEN "ValueError"
    ELSE None

getnextval(lines, k) == lines[k][2]

\* The header lines are read in order, so the first bad one raises.
FirstHeaderError(lines) ==
    LET bad == {k \in 1..6 : HeaderError(lines, k) # None}
    IN  IF bad = {} THEN None
        ELSE HeaderError(lines, CHOOSE k \in bad : \A j \in bad : k <= j)

\* fromstring(data_str, dtype=float, sep=' ')
ParseData(toks) == [i \in 1..Len(toks) |-> ParseFloat(toks[i])]

\* Mutant of LengthOk: surplus data is accepted.
LengthOk_atLeast(data, nrows, ncols) == Len(data) >= nrows * ncols

\* The length assertion of __init__.
LengthOk(data, nrows, ncols) == Len(data) = nrows * ncols

\* ESRIAsc(file_path): [err |-> exception or None, obj |-> the instance].
Decode(file_path, lines) ==
    IF FirstHeaderError(lines) # None
    THEN [err |-> FirstHeaderError(lines), obj |-> None]
    ELSE LET ncols == ParseInt(getnextval(lines, 1))
             nrows == ParseInt(getnextval(lines, 2))
             xll   == ParseFloat(getnextval(lines, 3))
             yll   == ParseFloat(getnextval(lines, 4))
             cs    == ParseInt(getnextval(lines, 5))
             nd    == ParseFloat(getnextval(lines, 6))
             data  == ParseData(JoinLines(SubSeq(lines, 7, Len(lines))))
         IN  IF LengthOk(data, nrows, ncols)
             THEN [err |-> None,
                   obj |-> ESRIAsc(file_path, ncols, nrows, xll, yll, cs, nd, data)]
             ELSE [err |-> "AssertionError", obj |-> None]

\* numpy's reshape(a, (nrows, ncols)) of n values.  A negative entry is the
\* dimension to infer: two of them raise ValueError, one is n divided by the
\* other entry, which must be nonzero and divide n.  With no negative entry
\* the product must be n.
ReshapeOk(self) ==
    LET n == Len(self.data)
    IN  IF self.nrows < 0 /\ self.ncols < 0 THEN FALSE
        ELSE IF self.nrows < 0 THEN self.ncols # 0 /\ n % self.ncols = 0
        ELSE IF self.ncols < 0 THEN self.nrows # 0 /\ n % self.nrows = 0
        ELSE n = self.nrows * self.ncols

\* The shape of the reshaped array, where ReshapeOk holds.
MatrixRows(self) ==
    IF self.nrows < 0 THEN Len(self.data) \div self.ncols ELSE self.nrows

MatrixCols(self) ==
    IF self.ncols < 0 THEN Len(self.data) \div self.nrows ELSE self.ncols

\* as_matrix(): row r (0-based) is the r-th run of values.
as_matrix(self) ==
    [r \in 1..MatrixRows(self) |->
        SubSeq(self.data, (r - 1) * MatrixCols(self) + 1, r * MatrixCols(self))]

\* The six header lines write() emits: ncols, nrows and cellsize are ints,
\* xllcorner, yllcorner and NODATA_value floats.
HeaderLines(self) ==
    << <<"ncols", FormatInt(self.ncols)>>,
       <<"nrows", FormatInt(self.nrows)>>,
       <<"xllcorner", FormatFloat(self.xllcorner)>>,
       <<"yllcorner", FormatFloat(self.yllcorner)>>,
       <<"cellsize", FormatInt(self.cellsize)>>,
       <<"NODATA_value", FormatFloat(self.NODATA_value)>> >>

\* '\n'.join(' '.join(str(v) for v in row) for row in self.as_matrix())
DataLines(self) ==
    LET m == as_matrix(self)
    IN  [r \in 1..Len(m) |-> [c \in 1..Len(m[r]) |-> FormatFloat(m[r][c])]]

-----------------------------------------------------------------------------
(* casimir *)

\* type(x) is str: the strings passed as arguments are the paths on disk.
IsStr(x) == x \in DOMAIN disk

\* isinstance(x, ESRIAsc)
IsESRIAsc(x) == x \in DOMAIN heap

\* Allocation of, or assignment to, the object with id o.
Put(h, o, obj) == [p \in DOMAIN h \cup {o} |-> IF p = o THEN obj ELSE h[p]]

\* The str-or-ESRIAsc coercion of one argument; a path is decoded into a new
\* object with id newId.
Resolve(arg, newId) ==
    IF IsStr(arg)
    THEN LET d == Decode(arg, disk[arg])
         IN  [err |-> d.err, ref |-> newId, obj |-> d.obj, new |-> TRUE]
    ELSE IF IsESRIAsc(arg)
    THEN [err |-> None, ref |-> arg, obj |-> heap[arg], new |-> FALSE]
    ELSE [err |-> "TypeError", ref |-> None, obj |-> None, new |-> FALSE]

\* dict(zip(keys, vals)): a later pair with the same key replaces an earlier.
DictZip(keys, vals) ==
    LET n == IF Len(keys) < Len(vals) THEN Len(keys) ELSE Len(vals)
        last(k) == CHOOSE i \in 1..n : keys[i] = k /\ \A j \in 1..n : keys[j] = k => j <= i
    IN  [k \in {keys[i] : i \in 1..n} |-> vals[last(k)]]

\* read_excel and the two assertions on the columns.
TableError(cas_df) ==
    IF "Code.1" \notin cas_df.columns \/ "shear_resis" \notin cas_df.columns
    THEN "AssertionError" ELSE None

\* Mutant of DeepCopyRef: no copy is made, ret_veg_map aliases the input.
DeepCopyRef_alias(src) == src

\* The id of the object copy.deepcopy(vegetation_map) returns: a new object.
DeepCopyRef(src) == "ret"

\* The entry of casimir up to the loop: coercion of the three grids in the
\* order vegetation, shear, zone, the resistance table, the copy.
CasimirEnter ==
    /\ pc = "casimir"
    /\ LET v == Resolve(args.vegetation_map, "veg_loaded")
           s == Resolve(args.shear_map, "shear_loaded")
           z == Resolve(args.zone_map, "zone_loaded")
           isTable == IsStr(args.casimir_required_data)
           e == IF v.err # None THEN v.err
                ELSE IF s.err # None THEN s.err
                ELSE IF z.err # None THEN z.err
                ELSE IF ~isTable THEN "TypeError"
                ELSE TableError(disk[args.casimir_required_data])
       IN  IF e # None
           THEN /\ pc' = "raised"
                /\ err' = e
                /\ UNCHANGED <<heap, vegetation_map, zone_map, shear_map,
                               shear_resistance_dict, ret_veg_map, idx>>
           ELSE LET cas_df == disk[args.casimir_required_data]
                    h1 == IF v.new THEN Put(heap, v.ref, v.obj) ELSE heap
                    h2 == IF s.new THEN Put(h1, s.ref, s.obj) ELSE h1
                    h3 == IF z.new THEN Put(h2, z.ref, z.obj) ELSE h2
                    r  == DeepCopyRef(v.ref)
                IN  /\ vegetation_map' = v.ref
                    /\ shear_map' = s.ref
                    /\ zone_map' = z.ref
                    /\ shear_resistance_dict' =
                           DictZip(cas_df.Code1, cas_df.shear_resis)
                    /\ ret_veg_map' = r
                    /\ heap' = Put(h3, r, h3[v.ref])
                    /\ idx' = 0
                    /\ pc' = "loop"
                    /\ err' = None
    /\ UNCHANGED <<disk, args, written>>

\* The tests of one loop iteration, on cell idx (0-based, as in the code).
VegVal(V, i) == PyInt(V.data[i + 1])

IsVegetated(V, i) == VegVal(V, i) # 0

\* Mutant of is_not_nodata: `or` in place of `and`.
is_not_nodata_or(S, V, i) ==
    \/ FloatNe(S.data[i + 1], S.NODATA_value)
    \/ FloatNe(V.data[i + 1], V.NODATA_value)

is_not_nodata(S, V, i) ==
    /\ FloatNe(S.data[i + 1], S.NODATA_value)
    /\ FloatNe(V.data[i + 1], V.NODATA_value)

\* The dictionary is read only when is_not_nodata holds (`and` short-circuits).
LookupRaises(S, V, R, i) ==
    IsVegetated(V, i) /\ is_not_nodata(S, V, i) /\ VegVal(V, i) \notin DOMAIN R

\* Mutant of veg_needs_reset: >= in place of >.
veg_needs_reset_ge(S, V, R, i) ==
    is_not_nodata(S, V, i) /\
        (FloatGt(S.data[i + 1], R[VegVal(V, i)]) \/ S.data[i + 1] = R[VegVal(V, i)])

veg_needs_reset(S, V, R, i) ==
    is_not_nodata(S, V, i) /\ FloatGt(S.data[i + 1], R[VegVal(V, i)])

\* Mutant of CellValue: the age increment dedented out of `if veg_val != 0`.
CellValue_ageOutside(cur, S, V, Z, R, i) ==
    LET reset == IF IsVegetated(V, i) /\ veg_needs_reset(S, V, R, i)
                 THEN Z.data[i + 1] ELSE cur
    IN  IF is_not_nodata(S, V, i) THEN PlusOne(reset) ELSE reset

\* The value of ret_veg_map.data[idx] after the iteration, given its value
\* cur before it.
CellValue(cur, S, V, Z, R, i) ==
    IF IsVegetated(V, i)
    THEN LET reset == IF veg_needs_reset(S, V, R, i) THEN Z.data[i + 1] ELSE cur
         IN  IF is_not_nodata(S, V, i) THEN PlusOne(reset) ELSE reset
    ELSE cur

\* One iteration of the loop over range(len(shear_map.data)).
CasimirCell ==
    /\ pc = "loop"
    /\ idx < Len(heap[shear_map].data)
    /\ LET V == heap[vegetation_map]
           S == heap[shear_map]
           Z == heap[zone_map]
           R == shear_resistance_dict
       IN  IF IntRaises(V.data[idx + 1])
           THEN /\ pc' = "raised"
                /\ err' = "ValueError"
                /\ UNCHANGED <<heap, idx>>
           ELSE IF LookupRaises(S, V, R, idx)
           THEN /\ pc' = "raised"
                /\ err' = "KeyError"
                /\ UNCHANGED <<heap, idx>>
           ELSE /\ heap' = [heap EXCEPT ![ret_veg_map].data[idx + 1] =
                               CellValue(@, S, V, Z, R, idx)]
                /\ idx' = idx + 1
                /\ UNCHANGED <<pc, err>>
    /\ UNCHANGED <<disk, args, vegetation_map, zone_map, shear_map,
                   shear_resistance_dict, ret_veg_map, written>>

\* return ret_veg_map
CasimirReturn ==
    /\ pc = "loop"
    /\ idx = Len(heap[shear_map].data)
    /\ pc' = "returned"
    /\ UNCHANGED <<disk, heap, args, err, vegetation_map, zone_map, shear_map,
                   shear_resistance_dict, ret_veg_map, idx, written>>

-----------------------------------------------------------------------------
(* Inputs of casimir *)

\* The largest number of cells of an enumerated grid.
MaxCells == 2

\* NODATA_value of the enumerated grids: the constructor's default, as a float.
DefaultNodata == F(-9999)

\* The values a cell of an enumerated grid takes: bare ground, 0.5 (which
\* int() takes to 0), the codes 2 and 3, 2.5 (which int() takes to 2), NODATA.
VegValues == {0, 1, F(2), 5, F(3), DefaultNodata}
ZoneValues == {F(5), F(7)}
ShearValues == {F(1), F(5), F(10), DefaultNodata}

\* An in-memory grid of one row.
RowGrid(data) == ESRIAsc(None, Len(data), 1, 0, 0, 1, DefaultNodata, data)

\* The spreadsheet read_excel returns: its column names and the two columns
\* casimir uses.
Columns == {"Code", "Code.1", "shear_resis", "n_val"}
CodeRows == { <<>>, <<2>>, <<3>>, <<2, 3>> }
ResisOf(code) == IF code = 2 THEN F(5) ELSE F(2)
Table(cols, codes) ==
    [columns |-> cols, Code1 |-> codes,
     shear_resis |-> [i \in 1..Len(codes) |-> ResisOf(codes[i])]]

\* The worked example: V=[2,0,3], Z=[5,5,5], S=[10,0,1], R={2:5, 3:2}.
FixtureV == RowGrid(<<F(2), 0, F(3)>>)
FixtureZ == RowGrid(<<F(5), F(5), F(5)>>)
FixtureS == RowGrid(<<F(10), 0, F(1)>>)
FixtureTable == Table(Columns, <<2, 3>>)

\* The raster file holding a grid, as write() lays it out.
AscFile(g) == HeaderLines(g) \o DataLines(g)

Disk(table) ==
    [p \in {"veg.asc", "zone.asc", "shear.asc", "casimir.xlsx", "onecode.xlsx"} |->
        CASE p = "veg.asc" -> AscFile(FixtureV)
          [] p = "zone.asc" -> AscFile(FixtureZ)
          [] p = "shear.asc" -> AscFile(FixtureS)
          [] p = "casimir.xlsx" -> table
          [] p = "onecode.xlsx" -> Table(Columns \ {"Code.1"}, <<2, 3>>)]

Heap(V, Z, S) ==
    [o \in {"veg", "zone", "shear"} |->
        CASE o = "veg" -> V [] o = "zone" -> Z [] o = "shear" -> S]

CasimirLocalsInit ==
    /\ pc = "casimir"
    /\ err = None
    /\ vegetation_map = None
    /\ zone_map = None
    /\ shear_map = None
    /\ shear_resistance_dict = << >>
    /\ ret_veg_map = None
    /\ idx = 0
    /\ written = << >>

\* casimir called on in-memory grids of up to MaxCells cells.
InitCasimirGrids ==
    /\ \E n \in 1..MaxCells :
       \E vd \in [1..n -> VegValues], zd \in [1..n -> ZoneValues],
          sd \in [1..n -> ShearValues], codes \in CodeRows :
          /\ heap = Heap(RowGrid(vd), RowGrid(zd), RowGrid(sd))
          /\ disk = Disk(Table(Columns, codes))
    /\ args = [vegetation_map |-> "veg", zone_map |-> "zone",
               shear_map |-> "shear", casimir_required_data |-> "casimir.xlsx"]
    /\ CasimirLocalsInit

\* casimir called on the worked example, each argument given as an ESRIAsc
\* instance, as a path, or as neither.
InitCasimirKinds ==
    /\ heap = Heap(FixtureV, FixtureZ, FixtureS)
    /\ disk = Disk(FixtureTable)
    /\ args \in [vegetation_map : {"veg", "veg.asc", None},
                 zone_map : {"zone", "zone.asc", None},
                 shear_map : {"shear", "shear.asc", None},
                 casimir_required_data : {"casimir.xlsx", "onecode.xlsx", None, "veg"}]
    /\ CasimirLocalsInit

InitCasimir == InitCasimirGrids \/ InitCasimirKinds

NextCasimir == CasimirEnter \/ CasimirCell \/ CasimirReturn

SpecCasimir == InitCasimir /\ [][NextCasimir]_vars

-----------------------------------------------------------------------------
(* Properties of casimir *)

\* The loop has been entered: the copy exists and the locals are bound.
Started == ret_veg_map # None

InV == heap[vegetation_map]
InZ == heap[zone_map]
InS == heap[shear_map]
OutV == heap[ret_veg_map]
Cells == 0..(Len(InV.data) - 1)

\* The nonzero vegetation codes of V that have no entry in R.  The cells
\* holding V.NODATA_value are left out: the sentinel is not counted as a code.
MissingCodes ==
    {VegVal(InV, i) : i \in {j \in Cells : InV.data[j + 1] # InV.NODATA_value}}
        \ ({0} \cup DOMAIN shear_resistance_dict)

\* C1 (as claimed): when a nonzero vegetation code of V.data has no entry in
\* R, casimir fails before any cell of the copy has been reset or aged: no
\* iteration completes, the copy still equals V, and the call never returns.
C1_ValidatedBeforeAnyCell ==
    (Started /\ MissingCodes # {}) =>
        /\ idx = 0
        /\ OutV.data = InV.data
        /\ pc # "returned"

\* Cell i holds the integer code c (not a fractional value).
HoldsCode(i, c) == InV.data[i + 1] = F(c)

IsFixtureCall ==
    /\ Started
    /\ InV.data = FixtureV.data
    /\ InZ.data = FixtureZ.data
    /\ InS.data = FixtureS.data
    /\ InV.NODATA_value = DefaultNodata
    /\ InS.NODATA_value = DefaultNodata
    /\ shear_resistance_dict = DictZip(FixtureTable.Code1, FixtureTable.shear_resis)

\* C2: every processed cell holding a nonzero integer code c with an entry in
\* R, with neither its shear nor its vegetation value NODATA, holds Z.data[i]+1
\* if S.data[i] > R[c] and c+1 otherwise; the worked example returns [6,0,4].
C2_ResetThenAge ==
    /\ Started =>
         \A i \in Cells : \A c \in DOMAIN shear_resistance_dict :
            ( /\ i < idx
              /\ c # 0
              /\ HoldsCode(i, c)
              /\ InS.data[i + 1] # InS.NODATA_value
              /\ InV.data[i + 1] # InV.NODATA_value )
            => OutV.data[i + 1] =
                  IF InS.data[i + 1] > shear_resistance_dict[c]
                  THEN InZ.data[i + 1] + F(1)
                  ELSE F(c) + F(1)
    /\ (IsFixtureCall /\ pc = "returned") => OutV.data = <<F(6), 0, F(4)>>

\* C2's case: the worked example has returned, its first cell reset and aged
\* (6), its last cell aged without reset (4).
C2_Witness ==
    /\ IsFixtureCall
    /\ pc = "returned"
    /\ OutV.data = <<F(6), 0, F(4)>>

\* C3: a cell with V.data[i] = 0 holds 0 in the copy at every point of the
\* call, and the dictionary lookup never fails on such a cell.
C3_BareGroundFixed ==
    Started =>
        /\ \A i \in Cells : InV.data[i + 1] = 0 => OutV.data[i + 1] = 0
        /\ (pc = "raised" /\ err = "KeyError") => InV.data[idx + 1] # 0

\* C3's case: the call has returned with a bare cell whose shear is above
\* every threshold, R having no entry for 0.
C3_Witness ==
    /\ Started
    /\ pc = "returned"
    /\ 0 \notin DOMAIN shear_resistance_dict
    /\ DOMAIN shear_resistance_dict # {}
    /\ \E i \in Cells :
          /\ InV.data[i + 1] = 0
          /\ InS.data[i + 1] = F(10)
          /\ OutV.data[i + 1] = 0

\* C4: a cell with V.data[i] # 0 whose shear value is S.NODATA_value or whose
\* vegetation value is V.NODATA_value holds V.data[i] in the copy at every
\* point of the call.
C4_NodataUnchanged ==
    Started =>
        \A i \in Cells :
            ( /\ InV.data[i + 1] # 0
              /\ \/ InS.data[i + 1] = InS.NODATA_value
                 \/ InV.data[i + 1] = InV.NODATA_value )
            => OutV.data[i + 1] = InV.data[i + 1]

\* C4's case: the call has returned, a cell with a code of R and NODATA shear
\* is unchanged, and so is a cell holding V.NODATA_value under valid shear.
C4_Witness ==
    /\ Started
    /\ pc = "returned"
    /\ \E i \in Cells :
          /\ VegVal(InV, i) \in DOMAIN shear_resistance_dict
          /\ InS.data[i + 1] = InS.NODATA_value
          /\ OutV.data[i + 1] = InV.data[i + 1]
    /\ \E i \in Cells :
          /\ InV.data[i + 1] = InV.NODATA_value
          /\ InS.data[i + 1] = F(10)
          /\ OutV.data[i + 1] = InV.data[i + 1]

\* The ESRIAsc instances the caller passed.
InputObjects == {"veg", "zone", "shear"}

\* C5: no step of casimir changes a field of an ESRIAsc instance the caller
\* passed, and the copy written to and returned is none of those instances.
C5_InputsNotMutated ==
    [][ /\ \A o \in InputObjects : heap'[o] = heap[o]
        /\ ret_veg_map' \notin InputObjects ]_vars

\* C5's case: the call has failed part-way through the loop, after writing
\* to the copy.
C5_Witness ==
    /\ Started
    /\ pc = "raised"
    /\ err = "KeyError"
    /\ idx > 0
    /\ OutV.data # InV.data
    /\ InV = heap["veg"]

-----------------------------------------------------------------------------
(* The codec: ESRIAsc(file_path), then write(write_path) *)

\* ESRIAsc(file_path), the whole of __init__.
AscInit ==
    /\ pc = "decode"
    /\ LET d == Decode(args.file_path, disk[args.file_path])
       IN  IF d.err # None
           THEN /\ pc' = "raised"
                /\ err' = d.err
                /\ UNCHANGED heap
           ELSE /\ pc' = "decoded"
                /\ err' = None
                /\ heap' = Put(heap, "asc", d.obj)
    /\ UNCHANGED <<disk, args, vegetation_map, zone_map, shear_map,
                   shear_resistance_dict, ret_veg_map, idx, written>>

\* self.data.fillna(self.NODATA_value): every NaN is replaced by value.
fillna(data, value) ==
    [i \in 1..Len(data) |-> IF isnan(data[i]) THEN value ELSE data[i]]

\* write(write_path): the header is written first; as_matrix() then raises
\* if the data cannot be reshaped, leaving the header alone in the file.
AscWrite ==
    /\ pc = "decoded"
    /\ LET filled == [heap["asc"] EXCEPT !.data = fillna(@, heap["asc"].NODATA_value)]
       IN  /\ heap' = [heap EXCEPT !["asc"] = filled]
           /\ IF ReshapeOk(filled)
              THEN /\ written' = HeaderLines(filled) \o DataLines(filled)
                   /\ pc' = "written"
                   /\ err' = None
              ELSE /\ written' = HeaderLines(filled)
                   /\ pc' = "raised"
                   /\ err' = "ValueError"
    /\ UNCHANGED <<disk, args, vegetation_map, zone_map, shear_map,
                   shear_resistance_dict, ret_veg_map, idx>>

\* The enumerated raster files.
MaxDim == 2          \* positive ncols and nrows range over 1..MaxDim
MaxLines == 3        \* data lines in a file
MaxLineLen == 3      \* tokens on a data line

IntTok(n) == [val |-> F(n), dot |-> FALSE]          \* the literal "n"
FloatTok(x) == [val |-> x, dot |-> TRUE]            \* a literal with a point

XllTokens == {IntTok(100), FloatTok(F(100) + 1)}    \* "100", "100.5"
YllTokens == {FloatTok(F(20))}                      \* "20.0"
CellsizeTokens == {IntTok(1), FloatTok(1)}          \* "1", "0.5"
NodataLines == { <<"NODATA_value", IntTok(-9999)>>,            \* "-9999"
                 <<"NODATA_value", FloatTok(F(-9999) - 1)>>,   \* "-9999.5"
                 <<"NODATA_value">> }                          \* no value

\* The values ncols and nrows take in an enumerated file.
DimValues == {-2, -1} \cup 1..MaxDim

\* The k-th data token of a file: "k" in the int style, "k.5" in the float
\* style; in the nan style the first token is "nan" and the others "k".
DataTok(k, style) ==
    IF style = "float" THEN FloatTok(F(k) + 1)
    ELSE IF style = "nan" /\ k = 1 THEN [val |-> NaN, dot |-> FALSE]
    ELSE IntTok(k)

RECURSIVE SumLens(_)
SumLens(lens) == IF lens = <<>> THEN 0 ELSE Head(lens) + SumLens(Tail(lens))

\* Data lines with the given numbers of tokens, numbered through the file.
WrappedLines(lens, style) ==
    [l \in 1..Len(lens) |->
        [t \in 1..lens[l] |-> DataTok(SumLens(SubSeq(lens, 1, l - 1)) + t, style)]]

InitCodec ==
    /\ \E nc \in DimValues, nr \in DimValues, xll \in XllTokens, yll \in YllTokens,
          cs \in CellsizeTokens, nd \in NodataLines, n \in 0..MaxLines,
          style \in {"int", "float", "nan"} :
       \E lens \in [1..n -> 0..MaxLineLen] :
          disk = [p \in {"in.asc"} |->
                    << <<"ncols", IntTok(nc)>>, <<"nrows", IntTok(nr)>>,
                       <<"xllcorner", xll>>, <<"yllcorner", yll>>,
                       <<"cellsize", cs>>, nd >> \o WrappedLines(lens, style)]
    /\ heap = << >>
    /\ args = [file_path |-> "in.asc", write_path |-> "out.asc"]
    /\ pc = "decode"
    /\ err = None
    /\ vegetation_map = None
    /\ zone_map = None
    /\ shear_map = None
    /\ shear_resistance_dict = << >>
    /\ ret_veg_map = None
    /\ idx = 0
    /\ written = << >>

NextCodec == AscInit \/ AscWrite

SpecCodec == InitCodec /\ [][NextCodec]_vars

-----------------------------------------------------------------------------
(* Properties of the codec *)

InFile == disk["in.asc"]
InDataLines == SubSeq(InFile, 7, Len(InFile))

\* The number of whitespace-separated data tokens after the six header lines.
TokenCount == SumLens([l \in 1..Len(InDataLines) |-> Len(InDataLines[l])])

\* ncols*nrows as the header of the file declares it.
DeclaredCells == (InFile[1][2].val \div 2) * (InFile[2][2].val \div 2)

\* C6: a decoded Grid has len(data) = ncols*nrows, and whenever the number of
\* data tokens of the file differs from the declared ncols*nrows the decode
\* has raised, however the tokens are wrapped into lines.
C6_DecodedLength ==
    /\ pc \in {"decoded", "written"} =>
          /\ Len(heap["asc"].data) = heap["asc"].ncols * heap["asc"].nrows
          /\ Len(heap["asc"].data) = TokenCount
    /\ (pc # "decode" /\ TokenCount # DeclaredCells) =>
          (pc = "raised" /\ "asc" \notin DOMAIN heap)

\* C6's case: a file whose header is readable, with unevenly wrapped data
\* lines and a token count other than ncols*nrows, has been rejected by the
\* length assertion.
C6_Witness ==
    /\ pc = "raised"
    /\ err = "AssertionError"
    /\ TokenCount > DeclaredCells
    /\ \E l, m \in 1..Len(InDataLines) : Len(InDataLines[l]) # Len(InDataLines[m])

HeaderLabels ==
    <<"ncols", "nrows", "xllcorner", "yllcorner", "cellsize", "NODATA_value">>

\* The file is well formed: six header lines `label value` in order, ncols
\* and nrows positive integer literals, the other four numeric literals, and
\* ncols*nrows data values, none of them nan.
WellFormedInput ==
    /\ \A k \in 1..6 : Len(InFile[k]) = 2 /\ InFile[k][1] = HeaderLabels[k]
    /\ ~InFile[1][2].dot /\ InFile[1][2].val > 0
    /\ ~InFile[2][2].dot /\ InFile[2][2].val > 0
    /\ TokenCount = DeclaredCells
    /\ \A l \in 1..Len(InDataLines) : \A t \in 1..Len(InDataLines[l]) :
          ~isnan(InDataLines[l][t].val)

\* C7 (as claimed): a well-formed file decodes without error, and writing
\* the decoded Grid gives the same six header value tokens, and the data in
\* nrows lines of ncols values numerically equal to those read.
C7_RoundTrip ==
    WellFormedInput =>
        /\ pc # "raised"
        /\ pc = "written" =>
              /\ Len(written) = 6 + heap["asc"].nrows
              /\ \A k \in 1..6 : written[k] = InFile[k]
              /\ \A r \in 1..heap["asc"].nrows :
                    Len(written[6 + r]) = heap["asc"].ncols
              /\ LET out == JoinLines(SubSeq(written, 7, Len(written)))
                     inp == JoinLines(InDataLines)
                 IN  /\ Len(out) = Len(inp)
                     /\ \A i \in 1..Len(inp) : out[i].val = inp[i].val

-----------------------------------------------------------------------------
(* shear_mesh_to_asc *)

\* dflow_ds.variables['taus'][-1]: the last time step.
LastStep(taus) == taus[Len(taus)]

\* x and y of shear_mesh_to_asc: the i-th target coordinate (0-based).
TargetCoord(corner, cellsize, i) == FloatAdd(corner, F(i * cellsize))

\* scipy's griddata(..., method='linear') at the point (x, y), for the meshes
\* enumerated here: samples at the four corners of an axis-parallel rectangle
\* carrying an affine field.  Inside or on the rectangle (the convex hull)
\* every triangulation interpolates the affine field exactly; outside it,
\* and at a point with a NaN coordinate, the result is NaN.
griddata(mesh_x, mesh_y, mesh_shear, x, y) ==
    LET K  == 1..Len(mesh_x)
        x0 == CHOOSE a \in {mesh_x[k] : k \in K} : \A k \in K : a <= mesh_x[k]
        x1 == CHOOSE a \in {mesh_x[k] : k \in K} : \A k \in K : a >= mesh_x[k]
        y0 == CHOOSE a \in {mesh_y[k] : k \in K} : \A k \in K : a <= mesh_y[k]
        y1 == CHOOSE a \in {mesh_y[k] : k \in K} : \A k \in K : a >= mesh_y[k]
        at(px, py) == mesh_shear[CHOOSE k \in K : mesh_x[k] = px /\ mesh_y[k] = py]
    IN  IF isnan(x) \/ isnan(y) \/ x < x0 \/ x > x1 \/ y < y0 \/ y > y1
        THEN [nan |-> TRUE, v |-> 0]
        ELSE [nan |-> FALSE,
              v |-> at(x0, y0)
                    + ((x - x0) * (at(x1, y0) - at(x0, y0))) \div (x1 - x0)
                    + ((y - y0) * (at(x0, y1) - at(x0, y0))) \div (y1 - y0)]

\* Mutant of flipud: the rows are left in their order.
flipud_none(mat) == mat

\* flipud(asc_mat): the rows in reverse order.
flipud(mat) == [r \in 1..Len(mat) |-> mat[Len(mat) + 1 - r]]

\* reshape(asc_mat, ncols*nrows): the rows one after the other.
Flatten(mat) == JoinLines(mat)

\* Whether that reshape succeeds.  asc_mat has len(range(nrows)) rows of
\* len(range(ncols)) values; a negative ncols*nrows is a dimension numpy
\* infers, any other must be the number of values (so two negative
\* dimensions, an empty matrix and a positive product, raise ValueError).
FlattenOk(hd) ==
    LET rows == IF hd.nrows < 0 THEN 0 ELSE hd.nrows
        cols == IF hd.ncols < 0 THEN 0 ELSE hd.ncols
    IN  hd.ncols * hd.nrows < 0 \/ rows * cols = hd.ncols * hd.nrows

\* The value written over NaN: int(header_dict['NODATA_value']), stored in
\* the float array.
NodataFill(hd) == F(PyInt(hd.NODATA_value))

\* data[isnan(data)] = int(header_dict['NODATA_value'])
FillNan(data, hd) ==
    [i \in 1..Len(data) |-> IF data[i].nan THEN NodataFill(hd) ELSE data[i].v]

\* shear_mesh_to_asc(shear_nc_path, header_dict): [err |-> the exception or
\* None, obj |-> the ESRIAsc it returns].  The reshape and int() of a NaN
\* NODATA_value both raise ValueError.
shear_mesh_to_asc(dflow_ds, hd) ==
    LET mesh_x == dflow_ds.FlowElem_xcc
        mesh_y == dflow_ds.FlowElem_ycc
        mesh_shear == LastStep(dflow_ds.taus)
        \* meshgrid(x, y) has nrows rows of ncols points; row k has y[k].
        asc_mat == [k \in 1..hd.nrows |-> [j \in 1..hd.ncols |->
                       griddata(mesh_x, mesh_y, mesh_shear,
                                TargetCoord(hd.xllcorner, hd.cellsize, j - 1),
                                TargetCoord(hd.yllcorner, hd.cellsize, k - 1))]]
        data == FillNan(Flatten(flipud(asc_mat)), hd)
    IN  IF ~FlattenOk(hd) \/ IntRaises(hd.NODATA_value)
        THEN [err |-> "ValueError", obj |-> None]
        ELSE [err |-> None,
              obj |-> ESRIAsc(None, hd.ncols, hd.nrows, hd.xllcorner, hd.yllcorner,
                              hd.cellsize, hd.NODATA_value, data)]

-----------------------------------------------------------------------------
(* casimir_with_dflow_io *)

\* The two isinstance checks at the head of casimir_with_dflow_io.
DflowCheck ==
    /\ pc = "dflow"
    /\ IF ~IsESRIAsc(args.vegetation_map) \/ ~IsESRIAsc(args.zone_map)
       THEN pc' = "raised" /\ err' = "TypeError"
       ELSE pc' = "regrid" /\ err' = None
    /\ UNCHANGED <<disk, heap, args, vegetation_map, zone_map, shear_map,
                   shear_resistance_dict, ret_veg_map, idx, written>>

\* shear_map = shear_mesh_to_asc(shear_nc_path, vegetation_map.header_dict()),
\* then the call of casimir with it.
ShearMeshToAsc ==
    /\ pc = "regrid"
    /\ LET s == shear_mesh_to_asc(disk[args.shear_nc_path],
                                  header_dict(heap[args.vegetation_map]))
       IN  IF s.err # None
           THEN /\ pc' = "raised"
                /\ err' = s.err
                /\ UNCHANGED <<heap, args>>
           ELSE /\ heap' = Put(heap, "shear_mesh", s.obj)
                /\ args' = [args EXCEPT !.shear_map = "shear_mesh"]
                /\ pc' = "casimir"
                /\ err' = None
    /\ UNCHANGED <<disk, vegetation_map, zone_map, shear_map,
                   shear_resistance_dict, ret_veg_map, idx, written>>

\* The number of time steps of an enumerated D-FLOW output.
MaxSteps == 2

\* An enumerated D-FLOW output: flow elements at the corners of the rectangle
\* [x0, x1] x [0, y1], shear a*x + b*y + 1 at the last of n time steps and 0
\* at the earlier ones.
Dataset(x0, x1, y1, a, b, n) ==
    LET xs == <<x0, x1, x0, x1>>
        ys == <<0, 0, y1, y1>>
    IN  [FlowElem_xcc |-> xs, FlowElem_ycc |-> ys,
         taus |-> [t \in 1..n |->
                     [k \in 1..4 |-> IF t = n THEN a * xs[k] + b * ys[k] + F(1) ELSE 0]]]

\* The vegetation and zone maps of the pipeline: code 2 and zone 5 everywhere.
Uniform(nc, nr, cs, nd, value) ==
    ESRIAsc(None, nc, nr, 0, 0, cs, nd, [i \in 1..(nc * nr) |-> value])

\* A raster file holding a grid with all its values on one data line (a
\* file ESRIAsc decodes whatever the signs of ncols and nrows).
OneLineFile(g) ==
    HeaderLines(g) \o << [i \in 1..Len(g.data) |-> FormatFloat(g.data[i])] >>

\* casimir_with_dflow_io on uniform maps whose ncols and nrows are both
\* positive or both negative (the headers a decoded file can carry).
InitDflow ==
    /\ \E nc \in DimValues, nr \in DimValues, cs \in {1, 2},
          nd \in {DefaultNodata, DefaultNodata - 1},
          x0 \in {F(0), F(1)}, x1 \in {F(1), F(2)}, y1 \in {F(1), F(2)},
          a \in {1}, b \in {0, 2}, n \in 1..MaxSteps :
          /\ x0 < x1
          /\ nc * nr > 0
          /\ heap = [o \in {"veg", "zone"} |->
                        IF o = "veg" THEN Uniform(nc, nr, cs, nd, F(2))
                        ELSE Uniform(nc, nr, cs, nd, F(5))]
          /\ disk = [p \in {"veg.asc", "zone.asc", "casimir.xlsx", "shear.nc"} |->
                        CASE p = "veg.asc" -> OneLineFile(Uniform(nc, nr, cs, nd, F(2)))
                          [] p = "zone.asc" -> OneLineFile(Uniform(nc, nr, cs, nd, F(5)))
                          [] p = "casimir.xlsx" -> FixtureTable
                          [] p = "shear.nc" -> Dataset(x0, x1, y1, a, b, n)]
    /\ args \in [vegetation_map : {"veg", "veg.asc", None},
                 zone_map : {"zone", "zone.asc", None},
                 shear_map : {None},
                 shear_nc_path : {"shear.nc"},
                 casimir_required_data : {"casimir.xlsx"}]
    /\ pc = "dflow"
    /\ err = None
    /\ vegetation_map = None
    /\ zone_map = None
    /\ shear_map = None
    /\ shear_resistance_dict = << >>
    /\ ret_veg_map = None
    /\ idx = 0
    /\ written = << >>

NextDflow ==
    DflowCheck \/ ShearMeshToAsc \/ CasimirEnter \/ CasimirCell \/ CasimirReturn

SpecDflow == InitDflow /\ [][NextDflow]_vars

-----------------------------------------------------------------------------
(* Properties of shear_mesh_to_asc and casimir_with_dflow_io *)

Regridded == "shear_mesh" \in DOMAIN heap
Mesh == disk["shear.nc"]
ShearGrid == heap["shear_mesh"]

\* The interpolated value at the target point of stored row r, column c
\* (0-based) when the first stored row has the largest y.
AtTarget(hd, r, c) ==
    griddata(Mesh.FlowElem_xcc, Mesh.FlowElem_ycc, Mesh.taus[Len(Mesh.taus)],
             FloatAdd(hd.xllcorner, F(c * hd.cellsize)),
             FloatAdd(hd.yllcorner, F((hd.nrows - 1 - r) * hd.cellsize)))

\* C8 (as claimed): every cell of the Grid shear_mesh_to_asc returns whose
\* target point has no interpolated value holds exactly the header's
\* NODATA_value, and casimir leaves the vegetation of such a cell unchanged.
C8_HullMissIsNodata ==
    Regridded =>
        \A r \in 0..(ShearGrid.nrows - 1), c \in 0..(ShearGrid.ncols - 1) :
            AtTarget(ShearGrid, r, c).nan =>
                /\ ShearGrid.data[r * ShearGrid.ncols + c + 1] = ShearGrid.NODATA_value
                /\ Started =>
                      OutV.data[r * ShearGrid.ncols + c + 1] =
                          InV.data[r * ShearGrid.ncols + c + 1]

\* The argument is a path on disk or an ESRIAsc instance.
PathOrGrid(x) == IsStr(x) \/ IsESRIAsc(x)

\* C9 (as claimed): casimir_with_dflow_io raises TypeError only when
\* vegetation_map or zone_map is neither a path nor an ESRIAsc instance.
C9_PathOrGridAccepted ==
    (pc = "raised" /\ err = "TypeError") =>
        (~PathOrGrid(args.vegetation_map) \/ ~PathOrGrid(args.zone_map))

\* C10: the Grid shear_mesh_to_asc returns carries the target header, has
\* ncols*nrows values, and data[r*ncols + c] is the value interpolated at
\* (xllcorner + c*cellsize, yllcorner + (nrows-1-r)*cellsize), or the value
\* written over NaN where there is none.
C10_FlippedRowMajor ==
    Regridded =>
        LET hd == header_dict(heap["veg"])
        IN  /\ header_dict(ShearGrid) = hd
            /\ Len(ShearGrid.data) = hd.ncols * hd.nrows
            /\ \A r \in 0..(hd.nrows - 1), c \in 0..(hd.ncols - 1) :
                  ShearGrid.data[r * hd.ncols + c + 1] =
                      IF AtTarget(hd, r, c).nan
                      THEN NodataFill(hd) ELSE AtTarget(hd, r, c).v

\* C10's case: a grid of two rows or more has been regridded from a field
\* that varies with y, with an interpolated value in both its first and its
\* last stored row, so the order of the rows shows, and a cell outside the
\* hull.
C10_Witness ==
    /\ Regridded
    /\ ShearGrid.nrows >= 2
    /\ ShearGrid.ncols >= 2
    /\ ~AtTarget(ShearGrid, 0, 0).nan
    /\ ~AtTarget(ShearGrid, ShearGrid.nrows - 1, 0).nan
    /\ ShearGrid.data[1] > ShearGrid.data[(ShearGrid.nrows - 1) * ShearGrid.ncols + 1]
    /\ \E i \in 1..Len(ShearGrid.data) : ShearGrid.data[i] = NodataFill(ShearGrid)

====
